---- MODULE Spec2Model ----
(***************************************************************************)
(* State-machine model of backend/crud.py: the persistence layer of the    *)
(* mobility-tracking application (users, mobility logs, credits ledger,    *)
(* challenges, challenge memberships, challenge progress and completion).   *)
(*                                                                         *)
(* Tables are sets of rows (or functions from the primary key to the row). *)
(* Every handler of crud.py is one action that runs from its first query   *)
(* to its last commit.  Row identities come from counters that never give  *)
(* a number twice.                                                         *)
(*                                                                         *)
(*   Spec          the handlers of users, challenges, memberships, logs    *)
(*                 and the ledger, called one at a time                    *)
(*   SpecDelete    delete_user and the writers of the rows it deletes      *)
(*   SpecLog       create_mobility_log against every CarbonFactor table    *)
(*   SpecProgress  calculate_challenge_progress over logs and goals        *)
(*   SpecSteps     create_user as its two commits                          *)
(*   SpecRace      two join_challenge calls on separate sessions, query    *)
(*                 and commit as separate steps                            *)
(*                                                                         *)
(* Numbers: distance_km, g_per_km, co2_saved_g and goal_target_value are   *)
(* taken on the integer grid, where the float arithmetic of the code is    *)
(* exact.  A progress percentage is carried in tenths of a percent, the    *)
(* resolution of round(progress, 1): 1000 stands for 100.0.                *)
(***************************************************************************)
EXTENDS Integers, FiniteSets, Sequences, TLC

(***************************************************************************)
(* Bounds of the model.                                                    *)
(***************************************************************************)
\* User rows ever created.
MaxUsers == 2
\* Challenge rows ever created.
MaxChallenges == 2
\* ChallengeMember rows ever created.
MaxMembers == 3
\* MobilityLog rows ever created.
MaxLogs == 3
\* Rows held at one time by the other tables that reference a user.
MaxRows == 2
\* Handler steps in one behaviour.
MaxCalls == 6
\* MobilityLog rows held at one time in SpecLog.
MaxTrips == 1

UserIds == 1..MaxUsers
ChallengeIds == 1..MaxChallenges

(***************************************************************************)
(* Enumerations of schemas.py / models.py as crud.py uses them.            *)
(***************************************************************************)
PERSONAL == "PERSONAL"
GROUP == "GROUP"
AUTO == "AUTO"
MANUAL == "MANUAL"
ACTIVE == "ACTIVE"
COMPLETED == "COMPLETED"
ANY == "ANY"
BUS == "BUS"
BIKE == "BIKE"
CO2_SAVED == "CO2_SAVED"
DISTANCE_KM == "DISTANCE_KM"
TRIP_COUNT == "TRIP_COUNT"

\* A function that finds no row returns None; row ids start at 1.
None == 0

\* The fields create_challenge copies out of a ChallengeCreate.  status and
\* challenge_id are not among them.
ChallengeCreateFields ==
    {"scope", "completion_type", "target_mode", "goal_type",
     "goal_target_value", "start_at", "end_at", "created_by"}

\* Column defaults of the ORM models: a new challenge is ACTIVE, a new
\* membership is not completed.
DefaultStatus == ACTIVE
DefaultIsCompleted == FALSE

\* The dependent tables delete_user empties besides MobilityLog,
\* ChallengeMember and Challenge; each row is kept as its user_id column.
DependentTables ==
    {"CreditsLedger", "GardenWateringLog", "UserGarden", "UserAchievement",
     "Notification", "IngestRaw"}

VARIABLES
    users,            \* User: set of user_id of the rows present
    nextUserId,       \* autoincrement of User.user_id
    challenges,       \* Challenge: challenge_id -> row
    nextChallengeId,  \* autoincrement of Challenge.challenge_id
    members,          \* ChallengeMember: set of rows
    nextMemberId,     \* autoincrement of the ChallengeMember row identity
    logs,             \* MobilityLog: set of rows
    nextLogId,        \* autoincrement of MobilityLog.log_id
    dependents,       \* table name -> user_id -> number of rows
    factors,          \* CarbonFactor: set of rows (reference data)
    ret,              \* the last call made and what it returned
    calls,            \* number of steps taken so far
    inflight,         \* create_user between its two commits: the db_user, or None
    joinpc,           \* session -> where its join_challenge call stands
    uniqueConstraint  \* whether the store has UNIQUE(user_id, challenge_id)

vars == <<users, nextUserId, challenges, nextChallengeId, members, nextMemberId,
          logs, nextLogId, dependents, factors, ret, calls, inflight,
          joinpc, uniqueConstraint>>

userVars == <<users, nextUserId>>
challengeVars == <<challenges, nextChallengeId>>
memberVars == <<members, nextMemberId>>
logVars == <<logs, nextLogId>>
stepVars == <<inflight, joinpc, uniqueConstraint>>

Sessions == {1, 2}
IdleJoin == [pc |-> "idle", user_id |-> None, challenge_id |-> None,
             checked_at |-> None]

\* The last call: the handler, its identifying arguments, and the identity of
\* the row (or the number) it returned; None when it returned none.
Returned(op, args, val) == [op |-> op, args |-> args, val |-> val]

(***************************************************************************)
(* Queries                                                                 *)
(***************************************************************************)
\* db.query(ChallengeMember).filter(user_id == u, challenge_id == c)
MemberRowsIn(table, u, c) ==
    {m \in table : m.user_id = u /\ m.challenge_id = c}

MemberRows(u, c) == MemberRowsIn(members, u, c)

\* Faulty variant: the scope filter left out of the query.
AllChallenges == DOMAIN challenges

\* db.query(Challenge).filter(scope == PERSONAL).all()
DefaultChallenges == {c \in DOMAIN challenges : challenges[c].scope = PERSONAL}

\* The ChallengeMember rows create_user adds for user u, one per default
\* challenge, numbered in the order of the query result (by challenge_id).
DefaultMemberships(u) ==
    {[member_id |-> nextMemberId + Cardinality({d \in DefaultChallenges : d < c}),
      user_id |-> u, challenge_id |-> c, is_completed |-> DefaultIsCompleted] :
        c \in DefaultChallenges}


\* Faulty variant: the validity window left out of the query.
MatchingFactorsByMode(log) == {f \in factors : f.mode = log.mode}

\* CarbonFactor rows whose mode and validity window cover the log
\* (mode == log.mode, valid_from <= started_at, valid_to >= ended_at).
MatchingFactors(log) ==
    {f \in factors : /\ f.mode = log.mode
                     /\ f.valid_from <= log.started_at
                     /\ f.valid_to >= log.ended_at}

\* int(x / y) for y > 0: Python's int() truncates toward zero.
IntDiv(x, y) == IF x >= 0 THEN x \div y ELSE -((-x) \div y)

\* points_earned = int(co2_saved_g / 100)
PointsEarned(co2_saved_g) == IntDiv(co2_saved_g, 100)

\* co2_saved_g = float(distance_km) * float(g_per_km)
Co2Saved(distance_km, g_per_km) == distance_km * g_per_km

(***************************************************************************)
(* User                                                                    *)
(***************************************************************************)
\* create_user: the user row, then one ChallengeMember per default challenge.
CreateUser ==
    /\ nextUserId <= MaxUsers
    /\ nextMemberId + Cardinality(DefaultChallenges) <= MaxMembers + 1
    /\ users' = users \cup {nextUserId}
    /\ nextUserId' = nextUserId + 1
    /\ members' = members \cup DefaultMemberships(nextUserId)
    /\ nextMemberId' = nextMemberId + Cardinality(DefaultChallenges)
    /\ ret' = Returned("create_user", <<>>, nextUserId)
    /\ UNCHANGED <<challengeVars, logVars, dependents, factors, stepVars>>

\* Faulty variant: the challenges the user created are not deleted.
ChallengesKeptAll(u) == DOMAIN challenges

\* The rows of each table delete_user leaves in place.
LogsKept(u) == {l \in logs : l.user_id # u}
MembersKept(u) == {m \in members : m.user_id # u}
ChallengesKept(u) == {c \in DOMAIN challenges : challenges[c].created_by # u}
DependentsKept(u) ==
    [t \in DependentTables |->
        [x \in UserIds |-> IF x = u THEN 0 ELSE dependents[t][x]]]

\* delete_user
DeleteUser(u) ==
    IF u \notin users
    THEN /\ ret' = Returned("delete_user", <<u>>, None)
         /\ UNCHANGED <<userVars, challengeVars, memberVars, logVars,
                        dependents, factors, stepVars>>
    ELSE /\ logs' = LogsKept(u)
         /\ dependents' = DependentsKept(u)
         /\ members' = MembersKept(u)
         /\ challenges' = [c \in ChallengesKept(u) |-> challenges[c]]
         /\ users' = users \ {u}
         /\ ret' = Returned("delete_user", <<u>>, u)
         /\ UNCHANGED <<nextUserId, nextChallengeId, nextMemberId, nextLogId,
                        factors, stepVars>>

(***************************************************************************)
(* MobilityLog and CreditsLedger                                           *)
(***************************************************************************)
\* create_mobility_log; .first() takes any one of the matching factors.
CreateMobilityLog(log) ==
    /\ nextLogId <= MaxLogs
    /\ \E co2 \in IF MatchingFactors(log) = {}
                  THEN {0}
                  ELSE {Co2Saved(log.distance_km, f.g_per_km) :
                            f \in MatchingFactors(log)} :
          logs' = logs \cup
              {[log_id |-> nextLogId, user_id |-> log.user_id, mode |-> log.mode,
                distance_km |-> log.distance_km, started_at |-> log.started_at,
                ended_at |-> log.ended_at, co2_saved_g |-> co2,
                points_earned |-> PointsEarned(co2)]}
    /\ nextLogId' = nextLogId + 1
    /\ ret' = Returned("create_mobility_log", <<log.user_id>>, nextLogId)
    /\ UNCHANGED <<userVars, challengeVars, memberVars, dependents, factors,
                   stepVars>>

RECURSIVE SumRows(_, _)
\* func.sum over a set of rows of the column `field`
SumRows(rows, field) ==
    IF rows = {} THEN 0
    ELSE LET r == CHOOSE x \in rows : TRUE
         IN r[field] + SumRows(rows \ {r}, field)

TotalDependents ==
    LET cells == DependentTables \X UserIds
        RECURSIVE Total(_)
        Total(S) == IF S = {} THEN 0
                    ELSE LET x == CHOOSE y \in S : TRUE
                         IN dependents[x[1]][x[2]] + Total(S \ {x})
    IN Total(cells)

\* One more row referencing user u in table t.
InsertRow(t, u) ==
    /\ TotalDependents < MaxRows
    /\ dependents' = [dependents EXCEPT ![t][u] = @ + 1]

\* add_credits: one EARN row in the ledger.
AddCredits(u) ==
    /\ InsertRow("CreditsLedger", u)
    /\ ret' = Returned("add_credits", <<u>>, u)
    /\ UNCHANGED <<userVars, challengeVars, memberVars, logVars, factors,
                   stepVars>>

\* The writers of the garden, achievement, notification and raw-ingest
\* tables live outside crud.py; each adds a row for an existing user.
InsertDependent(t, u) ==
    /\ t # "CreditsLedger"
    /\ u \in users
    /\ InsertRow(t, u)
    /\ ret' = Returned("insert_dependent", <<u>>, u)
    /\ UNCHANGED <<userVars, challengeVars, memberVars, logVars, factors,
                   stepVars>>

(***************************************************************************)
(* Challenge                                                               *)
(***************************************************************************)
\* create_challenge: ch carries the ChallengeCreate fields.
CreateChallenge(ch) ==
    /\ nextChallengeId <= MaxChallenges
    /\ challenges' =
          [c \in DOMAIN challenges \cup {nextChallengeId} |->
              IF c = nextChallengeId
              THEN [scope |-> ch.scope, completion_type |-> ch.completion_type,
                    target_mode |-> ch.target_mode, goal_type |-> ch.goal_type,
                    goal_target_value |-> ch.goal_target_value,
                    start_at |-> ch.start_at, end_at |-> ch.end_at,
                    created_by |-> ch.created_by, status |-> DefaultStatus]
              ELSE challenges[c]]
    /\ nextChallengeId' = nextChallengeId + 1
    /\ ret' = Returned("create_challenge", <<>>, nextChallengeId)
    /\ UNCHANGED <<userVars, memberVars, logVars, dependents, factors, stepVars>>

\* Faulty variant: the columns the caller did not set go back to their
\* defaults, status among them.
ApplyPatchResettingStatus(row, patch) ==
    [f \in DOMAIN row |->
        IF f \in DOMAIN patch THEN patch[f]
        ELSE IF f = "status" THEN DefaultStatus ELSE row[f]]

\* for key, value in challenge.dict(exclude_unset=True).items(): setattr(...)
\* patch is a record of the fields the caller set.
ApplyPatch(row, patch) ==
    [f \in DOMAIN row |-> IF f \in DOMAIN patch THEN patch[f] ELSE row[f]]

\* update_challenge
UpdateChallenge(c, patch) ==
    /\ DOMAIN patch \subseteq ChallengeCreateFields
    /\ IF c \in DOMAIN challenges
       THEN /\ challenges' = [challenges EXCEPT ![c] = ApplyPatch(@, patch)]
            /\ ret' = Returned("update_challenge", <<c>>, c)
       ELSE /\ UNCHANGED challenges
            /\ ret' = Returned("update_challenge", <<c>>, None)
    /\ UNCHANGED <<userVars, nextChallengeId, memberVars, logVars, dependents,
                   factors, stepVars>>

\* delete_challenge: the challenge row alone.
DeleteChallenge(c) ==
    /\ IF c \in DOMAIN challenges
       THEN /\ challenges' = [d \in DOMAIN challenges \ {c} |-> challenges[d]]
            /\ ret' = Returned("delete_challenge", <<c>>, c)
       ELSE /\ UNCHANGED challenges
            /\ ret' = Returned("delete_challenge", <<c>>, None)
    /\ UNCHANGED <<userVars, nextChallengeId, memberVars, logVars, dependents,
                   factors, stepVars>>

(***************************************************************************)
(* ChallengeMember                                                         *)
(***************************************************************************)
\* models.ChallengeMember(user_id=u, challenge_id=c) with the next identity
NewMember(u, c) ==
    [member_id |-> nextMemberId, user_id |-> u, challenge_id |-> c,
     is_completed |-> DefaultIsCompleted]

\* Faulty variant: no look-up of an existing row before the insert.
JoinChallengeAlwaysInsert(u, c) ==
    /\ nextMemberId <= MaxMembers
    /\ members' = members \cup {NewMember(u, c)}
    /\ nextMemberId' = nextMemberId + 1
    /\ ret' = Returned("join_challenge", <<u, c>>, nextMemberId)
    /\ UNCHANGED <<userVars, challengeVars, logVars, dependents, factors,
                   stepVars>>

\* join_challenge: the existing row when there is one, else a new row.
JoinChallenge(u, c) ==
    /\ IF MemberRows(u, c) # {}
       THEN /\ \E m \in MemberRows(u, c) :
                  ret' = Returned("join_challenge", <<u, c>>, m.member_id)
            /\ UNCHANGED memberVars
       ELSE /\ nextMemberId <= MaxMembers
            /\ members' = members \cup {NewMember(u, c)}
            /\ nextMemberId' = nextMemberId + 1
            /\ ret' = Returned("join_challenge", <<u, c>>, nextMemberId)
    /\ UNCHANGED <<userVars, challengeVars, logVars, dependents, factors,
                   stepVars>>

\* leave_challenge: deletes the row the query finds first, if any.
LeaveChallenge(u, c) ==
    /\ IF MemberRows(u, c) # {}
       THEN \E m \in MemberRows(u, c) :
               /\ members' = members \ {m}
               /\ ret' = Returned("leave_challenge", <<u, c>>, m.member_id)
       ELSE /\ UNCHANGED members
            /\ ret' = Returned("leave_challenge", <<u, c>>, None)
    /\ UNCHANGED <<userVars, challengeVars, nextMemberId, logVars, dependents,
                   factors, stepVars>>

(***************************************************************************)
(* Challenge progress and completion                                       *)
(***************************************************************************)
\* Faulty variant: the user_id filter left out.
ProgressLogsOfAnyUser(u, c) ==
    {l \in logs : /\ l.started_at >= challenges[c].start_at
                  /\ l.ended_at <= challenges[c].end_at
                  /\ (challenges[c].target_mode # ANY
                         => l.mode = challenges[c].target_mode)}

\* query_filters of calculate_challenge_progress
ProgressLogs(u, c) ==
    {l \in logs : /\ l.user_id = u
                  /\ l.started_at >= challenges[c].start_at
                  /\ l.ended_at <= challenges[c].end_at
                  /\ (challenges[c].target_mode # ANY
                         => l.mode = challenges[c].target_mode)}

\* total_achieved_value: the aggregate goal_type selects; a goal_type that
\* matches no branch, and a sum over no rows (None), both leave 0.
TotalAchieved(u, c) ==
    CASE challenges[c].goal_type = CO2_SAVED ->
            SumRows(ProgressLogs(u, c), "co2_saved_g")
      [] challenges[c].goal_type = DISTANCE_KM ->
            SumRows(ProgressLogs(u, c), "distance_km")
      [] challenges[c].goal_type = TRIP_COUNT ->
            Cardinality(ProgressLogs(u, c))
      [] OTHER -> 0

\* round(num / den, 0) for den > 0: to the nearest integer, ties to even.
RoundHalfEven(num, den) ==
    LET q == num \div den
        r == num - q * den
    IN  IF 2 * r < den THEN q
        ELSE IF 2 * r > den THEN q + 1
        ELSE IF q % 2 = 0 THEN q ELSE q + 1

\* round((achieved / goal_target_value) * 100, 1), in tenths of a percent
Progress(u, c) ==
    IF challenges[c].goal_target_value > 0
    THEN RoundHalfEven(1000 * TotalAchieved(u, c), challenges[c].goal_target_value)
    ELSE 0

\* calculate_challenge_progress: a read.
CalculateChallengeProgress(u, c) ==
    /\ c \in DOMAIN challenges
    /\ ret' = Returned("calculate_challenge_progress", <<u, c>>, Progress(u, c))
    /\ UNCHANGED <<userVars, challengeVars, memberVars, logVars, dependents,
                   factors, stepVars>>

\* Faulty variant: the completion_type test left out.
CompletionGuardAnyType(c, progress) ==
    /\ progress >= 1000
    /\ challenges[c].status = ACTIVE

\* Faulty variant: the status test left out.
CompletionGuardAnyStatus(c, progress) ==
    /\ challenges[c].completion_type = AUTO
    /\ progress >= 1000

\* completion_type == AUTO and progress >= 100.0 and status == ACTIVE
CompletionGuard(c, progress) ==
    /\ challenges[c].completion_type = AUTO
    /\ progress >= 1000
    /\ challenges[c].status = ACTIVE

\* member_entry.is_completed = True, on the row the query finds first
MarkCompleted(u, c) ==
    IF MemberRows(u, c) = {}
    THEN UNCHANGED members
    ELSE \E m \in MemberRows(u, c) :
            members' = (members \ {m}) \cup {[m EXCEPT !.is_completed = TRUE]}

\* update_challenge_status_if_completed
UpdateChallengeStatusIfCompleted(c, progress, u) ==
    /\ c \in DOMAIN challenges
    /\ IF CompletionGuard(c, progress)
       THEN /\ challenges' = [challenges EXCEPT ![c].status = COMPLETED]
            /\ MarkCompleted(u, c)
       ELSE UNCHANGED <<challenges, members>>
    /\ ret' = Returned("update_challenge_status_if_completed", <<c, progress, u>>, c)
    /\ UNCHANGED <<userVars, nextChallengeId, nextMemberId, logVars, dependents,
                   factors, stepVars>>

\* update_personal_challenge_progress: looks both rows up, writes nothing.
UpdatePersonalChallengeProgress(u, c) ==
    /\ IF MemberRows(u, c) = {} \/ c \notin DOMAIN challenges
       THEN ret' = Returned("update_personal_challenge_progress", <<u, c>>, None)
       ELSE \E m \in MemberRows(u, c) :
               ret' = Returned("update_personal_challenge_progress", <<u, c>>, m.member_id)
    /\ UNCHANGED <<userVars, challengeVars, memberVars, logVars, dependents,
                   factors, stepVars>>

(***************************************************************************)
(* create_user commit by commit                                            *)
(***************************************************************************)
\* db.add(db_user); db.commit(); db.refresh(db_user): the first commit.
CreateUserInsert ==
    /\ inflight = None
    /\ nextUserId <= MaxUsers
    /\ users' = users \cup {nextUserId}
    /\ nextUserId' = nextUserId + 1
    /\ inflight' = nextUserId
    /\ UNCHANGED <<challengeVars, memberVars, logVars, dependents, factors, ret,
                   joinpc, uniqueConstraint>>

\* The query of the default challenges, the adds and the second commit.
CreateUserEnroll ==
    /\ inflight # None
    /\ nextMemberId + Cardinality(DefaultChallenges) <= MaxMembers + 1
    /\ members' = members \cup DefaultMemberships(inflight)
    /\ nextMemberId' = nextMemberId + Cardinality(DefaultChallenges)
    /\ inflight' = None
    /\ ret' = Returned("create_user", <<>>, inflight)
    /\ UNCHANGED <<userVars, challengeVars, logVars, dependents, factors, joinpc,
                   uniqueConstraint>>

\* The call ends after the first commit: the query or the second commit
\* raises, or the process stops.  What is committed stays.
CreateUserFail ==
    /\ inflight # None
    /\ inflight' = None
    /\ ret' = Returned("create_user", <<>>, None)
    /\ UNCHANGED <<userVars, challengeVars, memberVars, logVars, dependents,
                   factors, joinpc, uniqueConstraint>>

(***************************************************************************)
(* join_challenge on two sessions, query and commit as separate steps      *)
(***************************************************************************)
PendingInserts == Cardinality({s \in Sessions : joinpc[s].pc = "insert"})

\* Faulty variant: the insert is scheduled without looking for a row.
JoinCheckSkipped(s, u, c) ==
    /\ joinpc[s].pc = "idle"
    /\ nextMemberId + PendingInserts <= MaxMembers
    /\ joinpc' = [joinpc EXCEPT ![s] =
                    [pc |-> "insert", user_id |-> u, challenge_id |-> c,
                     checked_at |-> nextMemberId]]
    /\ UNCHANGED <<userVars, challengeVars, memberVars, logVars, dependents,
                   factors, ret, inflight, uniqueConstraint>>

\* existing_member = db.query(...).first(); return it if found
JoinCheck(s, u, c) ==
    /\ joinpc[s].pc = "idle"
    /\ IF MemberRows(u, c) # {}
       THEN /\ \E m \in MemberRows(u, c) :
                  ret' = Returned("join_challenge", <<u, c>>, m.member_id)
            /\ UNCHANGED joinpc
       ELSE /\ nextMemberId + PendingInserts <= MaxMembers
            /\ joinpc' = [joinpc EXCEPT ![s] =
                            [pc |-> "insert", user_id |-> u, challenge_id |-> c,
                             checked_at |-> nextMemberId]]
            /\ UNCHANGED ret
    /\ UNCHANGED <<userVars, challengeVars, memberVars, logVars, dependents,
                   factors, inflight, uniqueConstraint>>

\* db.commit() of the new row: a store with UNIQUE(user_id, challenge_id)
\* refuses a second row for the pair.
InsertAccepted(u, c) == ~uniqueConstraint \/ MemberRows(u, c) = {}

\* db.add(db_member); db.commit(); db.refresh(db_member); return db_member
JoinInsert(s) ==
    /\ joinpc[s].pc = "insert"
    /\ LET u == joinpc[s].user_id
           c == joinpc[s].challenge_id
       IN  IF InsertAccepted(u, c)
           THEN /\ members' = members \cup {NewMember(u, c)}
                /\ nextMemberId' = nextMemberId + 1
                /\ ret' = Returned("join_challenge", <<u, c>>, nextMemberId)
           ELSE /\ UNCHANGED memberVars
                /\ ret' = Returned("join_challenge", <<u, c>>, None)
    /\ joinpc' = [joinpc EXCEPT ![s] = IdleJoin]
    /\ UNCHANGED <<userVars, challengeVars, logVars, dependents, factors,
                   inflight, uniqueConstraint>>

(***************************************************************************)
(* Initial state and inputs                                                *)
(***************************************************************************)
\* CarbonFactor is reference data: no handler of crud.py writes it.
FactorRow(mode, from, to, rate) ==
    [mode |-> mode, valid_from |-> from, valid_to |-> to, g_per_km |-> rate]

SeedFactors == {FactorRow(BUS, 0, 2, 120)}

FactorRows ==
    {FactorRow(BUS, 0, 1, 120), FactorRow(BUS, 1, 2, 45), FactorRow(BIKE, 0, 2, 0)}

EmptyStore ==
    /\ users = {}
    /\ nextUserId = 1
    /\ challenges = <<>>
    /\ nextChallengeId = 1
    /\ members = {}
    /\ nextMemberId = 1
    /\ logs = {}
    /\ nextLogId = 1
    /\ dependents = [t \in DependentTables |-> [u \in UserIds |-> 0]]
    /\ ret = Returned("init", <<>>, None)
    /\ calls = 0
    /\ inflight = None
    /\ joinpc = [s \in Sessions |-> IdleJoin]

Init ==
    /\ EmptyStore
    /\ factors = SeedFactors
    /\ uniqueConstraint = FALSE

Tick ==
    /\ calls < MaxCalls
    /\ calls' = calls + 1

\* What the callers pass in.
ChallengeInputs ==
    [scope : {PERSONAL, GROUP}, completion_type : {AUTO, MANUAL},
     target_mode : {ANY}, goal_type : {TRIP_COUNT}, goal_target_value : {1},
     start_at : {0}, end_at : {2}, created_by : users]

Patches ==
    [completion_type : {AUTO, MANUAL}] \cup [scope : {PERSONAL, GROUP}]
        \cup [created_by : users]

ProgressInputs == {999, 1000}

LogInputs ==
    [user_id : users, mode : {BUS}, distance_km : {10}, started_at : {0},
     ended_at : {1}]

(***************************************************************************)
(* Spec: the handlers of users, challenges and memberships, one at a time  *)
(***************************************************************************)
Next ==
    \/ Tick /\ CreateUser
    \/ Tick /\ \E u \in UserIds : DeleteUser(u)
    \/ Tick /\ \E ch \in ChallengeInputs : CreateChallenge(ch)
    \/ Tick /\ \E c \in ChallengeIds, patch \in Patches : UpdateChallenge(c, patch)
    \/ Tick /\ \E c \in ChallengeIds : DeleteChallenge(c)
    \/ Tick /\ \E u \in users, c \in DOMAIN challenges : JoinChallenge(u, c)
    \/ Tick /\ \E u \in users, c \in DOMAIN challenges : LeaveChallenge(u, c)
    \/ Tick /\ \E c \in DOMAIN challenges, p \in ProgressInputs, u \in UserIds :
             UpdateChallengeStatusIfCompleted(c, p, u)
    \/ Tick /\ \E log \in LogInputs : CreateMobilityLog(log)
    \/ Tick /\ \E u \in users : AddCredits(u)

Spec == Init /\ [][Next]_vars

(***************************************************************************)
(* Properties of Spec                                                      *)
(***************************************************************************)
Present(c) == c \in DOMAIN challenges
StatusIs(c, st) == Present(c) /\ challenges[c].status = st

\* C1: a challenge goes from ACTIVE to COMPLETED only in a step of
\* update_challenge_status_if_completed taken with completion_type AUTO,
\* progress >= 100.0 and status ACTIVE; a COMPLETED challenge stays COMPLETED
\* for as long as its row exists, and the identity of a deleted row is never
\* given to another challenge, so it is never ACTIVE again.
CompletedOnlyByAutoAndOneWay ==
    [][\A c \in ChallengeIds :
          /\ (StatusIs(c, ACTIVE) /\ c \in DOMAIN challenges'
                 /\ challenges'[c].status = COMPLETED)
               => /\ challenges[c].completion_type = AUTO
                  /\ \E p \in ProgressInputs, u \in UserIds :
                        /\ p >= 1000
                        /\ UpdateChallengeStatusIfCompleted(c, p, u)
          /\ (StatusIs(c, COMPLETED) /\ c \in DOMAIN challenges')
               => challenges'[c].status = COMPLETED
          /\ (c < nextChallengeId /\ ~Present(c)) => c \notin DOMAIN challenges'
      ]_vars

\* C1 witness: a COMPLETED challenge on which update_challenge has just run.
CompletedThenUpdated ==
    /\ ret.op = "update_challenge"
    /\ ret.val # None
    /\ StatusIs(ret.val, COMPLETED)

\* C2: update_challenge_status_if_completed changes neither a challenge nor
\* a membership when completion_type is not AUTO, status is not ACTIVE or
\* progress < 100.0 (so also when called again after the transition);
\* otherwise it sets the status to COMPLETED and the completion flag of the
\* (user, challenge) membership, if there is one, in the same step, and
\* changes no other row.
StatusUpdateContract ==
    [][\A c \in ChallengeIds, p \in ProgressInputs, u \in UserIds :
          (ret'.args = <<c, p, u>> /\ UpdateChallengeStatusIfCompleted(c, p, u)) =>
            IF /\ challenges[c].completion_type = AUTO
               /\ challenges[c].status = ACTIVE
               /\ p >= 1000
            THEN /\ challenges' = [challenges EXCEPT ![c].status = COMPLETED]
                 /\ \A m \in members' :
                       (m.user_id = u /\ m.challenge_id = c) => m.is_completed
                 /\ {[member_id |-> m.member_id, user_id |-> m.user_id,
                      challenge_id |-> m.challenge_id] : m \in members'}
                      = {[member_id |-> m.member_id, user_id |-> m.user_id,
                          challenge_id |-> m.challenge_id] : m \in members}
                 /\ {m \in members' : ~(m.user_id = u /\ m.challenge_id = c)}
                      = {m \in members : ~(m.user_id = u /\ m.challenge_id = c)}
            ELSE /\ challenges' = challenges
                 /\ members' = members
      ]_vars

\* C2 witness: the call has completed a challenge and flagged the caller's
\* membership.
CompletedAndFlagged ==
    /\ ret.op = "update_challenge_status_if_completed"
    /\ StatusIs(ret.val, COMPLETED)
    /\ \E m \in members : /\ m.user_id = ret.args[3]
                          /\ m.challenge_id = ret.val
                          /\ m.is_completed

AtMostOneRowPerPair ==
    \A u \in UserIds, c \in ChallengeIds : Cardinality(MemberRows(u, c)) <= 1

\* C3: with calls made one after another there is at most one ChallengeMember
\* row per (user, challenge), and every join_challenge call, the first and a
\* repeated one, leaves exactly one row for its pair and returns that row; a
\* call that finds the row writes nothing.
JoinIdempotent ==
    /\ []AtMostOneRowPerPair
    /\ [][\A u \in UserIds, c \in ChallengeIds :
            (ret'.args = <<u, c>> /\ JoinChallenge(u, c)) =>
              /\ Cardinality(MemberRowsIn(members', u, c)) = 1
              /\ \A m \in MemberRowsIn(members', u, c) : ret'.val = m.member_id
              /\ (MemberRows(u, c) # {} => members' = members)
        ]_vars

\* C3 witness: join_challenge has returned a row that is older than the
\* newest row, a repeated call.
JoinedAgain ==
    /\ ret.op = "join_challenge"
    /\ ret.val # None
    /\ ret.val < nextMemberId - 1
    /\ Cardinality(MemberRows(ret.args[1], ret.args[2])) = 1

\* C4: the step that creates a user gives the new user exactly one
\* ChallengeMember row, not completed, for each PERSONAL challenge present
\* when the call is made, no row for any other challenge, and leaves the
\* rows of other users as they were.
CreateUserEnrollsInDefaults ==
    [][\A u \in users' \ users :
          LET rows == {m \in members' : m.user_id = u}
          IN  /\ {m.challenge_id : m \in rows}
                   = {c \in DOMAIN challenges : challenges[c].scope = PERSONAL}
              /\ Cardinality(rows)
                   = Cardinality({c \in DOMAIN challenges :
                                     challenges[c].scope = PERSONAL})
              /\ \A m \in rows : m.is_completed = FALSE
              /\ members' \ rows = members
      ]_vars

\* C4 witness: create_user has returned a user enrolled in one challenge
\* while a second challenge, not PERSONAL, exists.
EnrolledInDefaultsOnly ==
    /\ ret.op = "create_user"
    /\ Cardinality({m \in members : m.user_id = ret.val}) = 1
    /\ \E c \in DOMAIN challenges : challenges[c].scope # PERSONAL

CompletedRows(table, c) == {m \in table : m.challenge_id = c /\ m.is_completed}

\* C10: at most one ChallengeMember row of a challenge has its completion
\* flag set, and a flag is set only in the step that takes the challenge
\* from ACTIVE to COMPLETED, for one row; since that step happens once per
\* challenge (C1), no second row of the challenge is ever flagged.
OneCompletedMemberPerChallenge ==
    /\ [](\A c \in ChallengeIds : Cardinality(CompletedRows(members, c)) <= 1)
    /\ [][\A c \in ChallengeIds :
            LET new == CompletedRows(members', c) \ CompletedRows(members, c)
            IN  new # {} =>
                  /\ StatusIs(c, ACTIVE)
                  /\ challenges'[c].status = COMPLETED
                  /\ Cardinality(new) = 1
                  /\ CompletedRows(members, c) = {}
        ]_vars

\* C10 witness: after the transition, a call with progress >= 100.0 for
\* another member of the challenge has left that member's flag unset.
SecondMemberNotFlagged ==
    /\ ret.op = "update_challenge_status_if_completed"
    /\ ret.args[2] >= 1000
    /\ \E m \in members : /\ m.user_id = ret.args[3]
                          /\ m.challenge_id = ret.val
                          /\ ~m.is_completed
    /\ \E m \in members : /\ m.user_id # ret.args[3]
                          /\ m.challenge_id = ret.val
                          /\ m.is_completed

(***************************************************************************)
(* SpecDelete: users and the rows that reference them                      *)
(***************************************************************************)
PlainChallengeInputs ==
    [scope : {PERSONAL}, completion_type : {AUTO}, target_mode : {ANY},
     goal_type : {TRIP_COUNT}, goal_target_value : {1}, start_at : {0},
     end_at : {2}, created_by : users]

NextDelete ==
    \/ Tick /\ CreateUser
    \/ Tick /\ \E u \in UserIds : DeleteUser(u)
    \/ Tick /\ \E ch \in PlainChallengeInputs : CreateChallenge(ch)
    \/ Tick /\ \E u \in users, c \in DOMAIN challenges : JoinChallenge(u, c)
    \/ Tick /\ \E log \in LogInputs : CreateMobilityLog(log)
    \/ Tick /\ \E u \in users : AddCredits(u)
    \/ Tick /\ \E t \in DependentTables, u \in users : InsertDependent(t, u)

SpecDelete == Init /\ [][NextDelete]_vars

\* C6: delete_user of an existing user leaves no MobilityLog, ledger,
\* membership, garden, achievement, notification or raw-ingest row of that
\* user, no challenge created by that user and no user row, and changes no
\* row of another user; delete_user of an id that has no user row returns
\* none and writes nothing.
DeleteUserCascades ==
    [][\A u \in UserIds :
          (ret'.args = <<u>> /\ DeleteUser(u)) =>
            IF u \in users
            THEN /\ users' = users \ {u}
                 /\ \A l \in logs' : l.user_id # u
                 /\ \A m \in members' : m.user_id # u
                 /\ \A t \in DependentTables : dependents'[t][u] = 0
                 /\ \A c \in DOMAIN challenges' : challenges'[c].created_by # u
                 /\ logs' = {l \in logs : l.user_id # u}
                 /\ members' = {m \in members : m.user_id # u}
                 /\ \A t \in DependentTables, x \in UserIds \ {u} :
                       dependents'[t][x] = dependents[t][x]
                 /\ \A c \in DOMAIN challenges :
                       challenges[c].created_by # u =>
                          c \in DOMAIN challenges' /\ challenges'[c] = challenges[c]
                 /\ ret'.val = u
            ELSE /\ ret'.val = None
                 /\ UNCHANGED <<users, logs, members, dependents, challenges>>
      ]_vars

\* C6 witness: delete_user has removed a user that had a MobilityLog, while
\* a log and a dependent row of another user are still there.
DeletedWithOthersKept ==
    /\ ret.op = "delete_user"
    /\ ret.val # None
    /\ Cardinality(logs) < nextLogId - 1
    /\ \E l \in logs : l.user_id # ret.val
    /\ \E t \in DependentTables, x \in UserIds : dependents[t][x] > 0

(***************************************************************************)
(* SpecLog: create_mobility_log against every CarbonFactor table           *)
(***************************************************************************)
InitLog ==
    /\ EmptyStore
    /\ factors \in SUBSET FactorRows
    /\ uniqueConstraint = FALSE

TripInputs ==
    [user_id : users, mode : {BUS, BIKE}, distance_km : {-1, 0, 7, 10},
     started_at : {0, 1}, ended_at : {1, 2}]

NextLog ==
    \/ Tick /\ CreateUser
    \/ /\ Tick
       /\ Cardinality(logs) < MaxTrips
       /\ \E log \in TripInputs : CreateMobilityLog(log)

SpecLog == InitLog /\ [][NextLog]_vars

\* The CarbonFactor rows valid for a log row, by the row's own columns.
FactorsFor(l) ==
    {f \in factors : f.mode = l.mode /\ f.valid_from <= l.started_at
                       /\ f.valid_to >= l.ended_at}

DerivedFieldsOf(l) ==
    IF FactorsFor(l) = {}
    THEN l.co2_saved_g = 0 /\ l.points_earned = 0
    ELSE \E f \in FactorsFor(l) :
            /\ l.co2_saved_g = l.distance_km * f.g_per_km
            /\ (l.distance_km >= 0 /\ f.g_per_km >= 0) =>
                  /\ 100 * l.points_earned <= l.co2_saved_g
                  /\ l.co2_saved_g < 100 * (l.points_earned + 1)

\* C7: every stored log has co2_saved_g = distance_km * g_per_km of a factor
\* valid for its mode and time window, with points_earned =
\* floor(co2_saved_g / 100) when distance and rate are not negative, and
\* co2_saved_g = 0, points_earned = 0 when no factor is valid; in both cases
\* create_mobility_log inserts the row and returns it.
MobilityLogDerivedFields ==
    /\ [](\A l \in logs : DerivedFieldsOf(l))
    /\ [][\A log \in TripInputs :
            CreateMobilityLog(log) =>
              \E l \in logs' \ logs :
                 /\ logs' = logs \cup {l}
                 /\ ret'.val = l.log_id
                 /\ l.user_id = log.user_id /\ l.mode = log.mode
                 /\ l.distance_km = log.distance_km
                 /\ l.started_at = log.started_at /\ l.ended_at = log.ended_at
        ]_vars

\* C7 witness: a 7 km trip at 45 g/km stored with 315 g and 3 points.
StoredWithFlooredPoints ==
    /\ ret.op = "create_mobility_log"
    /\ \E l \in logs : /\ l.log_id = ret.val
                       /\ l.distance_km = 7
                       /\ l.co2_saved_g = 315
                       /\ l.points_earned = 3

(***************************************************************************)
(* SpecProgress: calculate_challenge_progress over logs and goals          *)
(***************************************************************************)
GoalInputs ==
    [scope : {GROUP}, completion_type : {AUTO}, target_mode : {ANY, BUS},
     goal_type : {CO2_SAVED, DISTANCE_KM, TRIP_COUNT},
     goal_target_value : {0, 3, 5}, start_at : {0}, end_at : {1},
     created_by : users]

WindowedLogInputs ==
    {[user_id |-> u, mode |-> m, distance_km |-> 5, started_at |-> w[1],
      ended_at |-> w[2]] :
        u \in users, m \in {BUS, BIKE}, w \in {<<0, 1>>, <<1, 2>>}}

NextProgress ==
    \/ Tick /\ CreateUser
    \/ /\ Tick
       /\ challenges = <<>>
       /\ \E ch \in GoalInputs : CreateChallenge(ch)
    \/ Tick /\ \E log \in WindowedLogInputs : CreateMobilityLog(log)
    \/ Tick /\ \E u \in users, c \in DOMAIN challenges :
             CalculateChallengeProgress(u, c)
    \/ Tick /\ \E u \in users, c \in DOMAIN challenges :
             UpdatePersonalChallengeProgress(u, c)

SpecProgress == Init /\ [][NextProgress]_vars

\* The logs of user u that count for challenge c: inside its window and of
\* its target mode, unless that is ANY.
CountedLogs(u, c) ==
    {l \in logs : /\ l.user_id = u
                  /\ challenges[c].start_at <= l.started_at
                  /\ l.ended_at <= challenges[c].end_at
                  /\ (challenges[c].target_mode = ANY
                        \/ l.mode = challenges[c].target_mode)}

RECURSIVE TotalUpTo(_, _, _)
\* The sum of column `field` over the rows of S with log_id <= n.
TotalUpTo(S, field, n) ==
    IF n = 0 THEN 0
    ELSE TotalUpTo(S, field, n - 1)
           + (IF \E l \in S : l.log_id = n
              THEN (CHOOSE l \in S : l.log_id = n)[field] ELSE 0)

Achieved(u, c) ==
    IF challenges[c].goal_type = CO2_SAVED
    THEN TotalUpTo(CountedLogs(u, c), "co2_saved_g", nextLogId - 1)
    ELSE IF challenges[c].goal_type = DISTANCE_KM
    THEN TotalUpTo(CountedLogs(u, c), "distance_km", nextLogId - 1)
    ELSE Cardinality(CountedLogs(u, c))

\* C8: calculate_challenge_progress returns 0 when goal_target_value <= 0,
\* and otherwise 100 * achieved / goal_target_value to the nearest tenth,
\* achieved being the sum of co2_saved_g, the sum of distance_km or the
\* count of the user's logs inside the challenge window and of the target
\* mode (any mode for ANY); achieved = target gives 100.0; nothing is written.
ProgressIsRoundedRatio ==
    [][\A u \in UserIds, c \in ChallengeIds :
          (ret'.args = <<u, c>> /\ CalculateChallengeProgress(u, c)) =>
            LET t == challenges[c].goal_target_value
                d == ret'.val * t - 1000 * Achieved(u, c)
            IN  /\ t <= 0 => ret'.val = 0
                /\ t > 0 => (2 * d <= t /\ -2 * d <= t)
                /\ (t > 0 /\ Achieved(u, c) = t) => ret'.val = 1000
                /\ UNCHANGED <<users, challenges, members, logs, dependents,
                               factors>>
      ]_vars

\* C8 witness: TRIP_COUNT with target 5 and 3 counted logs gives 60.0.
ThreeOfFiveTrips ==
    /\ ret.op = "calculate_challenge_progress"
    /\ ret.val = 600
    /\ challenges[ret.args[2]].goal_type = TRIP_COUNT
    /\ challenges[ret.args[2]].goal_target_value = 5
    /\ Cardinality(CountedLogs(ret.args[1], ret.args[2])) = 3

(***************************************************************************)
(* SpecSteps: create_user as its two commits, other sessions in between    *)
(***************************************************************************)
NextSteps ==
    \/ Tick /\ CreateUserInsert
    \/ Tick /\ CreateUserEnroll
    \/ Tick /\ CreateUserFail
    \/ Tick /\ \E ch \in ChallengeInputs : CreateChallenge(ch)
    \/ Tick /\ \E c \in ChallengeIds : DeleteChallenge(c)
    \/ Tick /\ \E u \in users, c \in DOMAIN challenges : JoinChallenge(u, c)
    \/ Tick /\ \E u \in users, c \in DOMAIN challenges : LeaveChallenge(u, c)

SpecSteps == Init /\ [][NextSteps]_vars

\* C5: the user row and its default memberships become durable together:
\* a step that commits a new user row also commits a ChallengeMember row of
\* that user for every PERSONAL challenge present.
UserAndMembershipsDurableTogether ==
    [][\A u \in users' \ users :
          \A c \in DOMAIN challenges :
             challenges[c].scope = PERSONAL =>
                \E m \in members' : m.user_id = u /\ m.challenge_id = c
      ]_vars

(***************************************************************************)
(* SpecRace: join_challenge on two sessions, with and without the          *)
(* uniqueness constraint                                                   *)
(***************************************************************************)
InitRace ==
    /\ EmptyStore
    /\ factors = SeedFactors
    /\ uniqueConstraint \in BOOLEAN

GroupChallengeInputs ==
    [scope : {GROUP}, completion_type : {AUTO}, target_mode : {ANY},
     goal_type : {TRIP_COUNT}, goal_target_value : {1}, start_at : {0},
     end_at : {2}, created_by : users]

NextRace ==
    \/ Tick /\ CreateUser
    \/ Tick /\ \E ch \in GroupChallengeInputs : CreateChallenge(ch)
    \/ Tick /\ \E s \in Sessions, u \in users, c \in DOMAIN challenges :
                  JoinCheck(s, u, c)
    \/ Tick /\ \E s \in Sessions : JoinInsert(s)
    \/ Tick /\ \E u \in users, c \in DOMAIN challenges : LeaveChallenge(u, c)

SpecRace == InitRace /\ [][NextRace]_vars

\* C9: a store with the uniqueness constraint never holds two rows for a
\* (user, challenge) pair under any interleaving; without the constraint a
\* second row for a pair is inserted only by a call whose look-up ran before
\* the insert of the row already there.
DuplicateOnlyByRace ==
    /\ [](uniqueConstraint => AtMostOneRowPerPair)
    /\ [][\A s \in Sessions :
            (JoinInsert(s) /\ members' # members
                /\ MemberRows(joinpc[s].user_id, joinpc[s].challenge_id) # {})
              => /\ ~uniqueConstraint
                 /\ \A m \in MemberRows(joinpc[s].user_id, joinpc[s].challenge_id) :
                       m.member_id >= joinpc[s].checked_at
        ]_vars

\* C9 witness: without the constraint both calls passed the look-up and two
\* rows exist for the pair.
RaceLeavesTwoRows ==
    /\ ~uniqueConstraint
    /\ \A s \in Sessions : joinpc[s].pc = "idle"
    /\ \E u \in UserIds, c \in ChallengeIds : Cardinality(MemberRows(u, c)) = 2

====
